---- MODULE Spec2Model ----
(***************************************************************************)
(* Model of the Flask/Spotipy relay in "src/Hackathon Project/main.py":    *)
(* the session token lifecycle (get_spotify_client, /callback,             *)
(* /auth/logout) and the route handlers that call the upstream API.        *)
(*                                                                         *)
(* A request is a process: Flask loads the session when the request        *)
(* arrives, the handler runs on that session object, and the session is    *)
(* written back when the response is delivered.  Outbound calls (token     *)
(* endpoint, upstream API) are separate steps, so that requests on the     *)
(* same session interleave around them.                                    *)
(***************************************************************************)
EXTENDS Integers, FiniteSets, Sequences, TLC

(* ------------------------------ bounds -------------------------------- *)
MaxTime == 2        \* the clock runs 0..MaxTime
MaxTok == 3         \* tokens the identity provider issues in one run
MaxExpiresIn == 1   \* a token lives 1..MaxExpiresIn clock ticks
NumCodes == 2       \* authorization codes the provider has handed out
MaxRequests == 3    \* requests that arrive in one run

Reqs == {"r1", "r2"}          \* request slots (concurrent requests)
OneAtATime == {"r1"}          \* the slot in use when requests do not overlap
Sessions == {"s1", "s2"}      \* browser sessions

(* ---------------------------- data model ------------------------------- *)
\* A token_info dict as the OAuth library returns it is a record of
\* access_token, refresh_token and expires_at; access_token = 0 stands for a
\* dict without the 'access_token' key.
\* session.get('token_info') found nothing
NoTokenInfo == [access_token |-> 0, refresh_token |-> 0, expires_at |-> 0]

\* the Flask session of this application: the 'token_info' key and the
\* permanent flag
EmptySession == [token_info |-> NoTokenInfo, permanent |-> FALSE]

Routes ==
    {"index", "callback", "logout", "auth_status", "create_playlist",
     "modify_playlist", "get_user_playlists", "search_tracks"}

\* outcomes of one upstream API call: it returns, raises SpotifyException,
\* or raises anything else (network fault, malformed payload)
UpstreamOutcomes == {"ok", "SpotifyException", "Exception"}

Response(status, body) == [status |-> status, body |-> body]
NoResponse == Response(0, "")

\* request.args.get(name) of a parameter the URL does not carry (None)
Missing == "<missing>"
NoCode == -1

\* Python truthiness of a query parameter: None and "" are false.  Codes are
\* numbered: NoCode is None, 0 is the empty string, 1..NumCodes are codes
\* the provider handed out, NumCodes + 1 is a code it never issued.
Truthy(param) == param \notin {Missing, ""}
TruthyCode(code) == code > 0

IdleReq ==
    [pc |-> "idle", route |-> "none", sid |-> "none",
     error |-> Missing, code |-> NoCode, action |-> "none", q |-> Missing,
     session |-> EmptySession, modified |-> FALSE, sp |-> 0, step |-> 0,
     response |-> NoResponse]

\* what a request has done so far (observation only; no handler reads it)
IdleHist ==
    [session0 |-> EmptySession, checked |-> -1,
     refreshCalls |-> 0, refreshed |-> NoTokenInfo, refreshFailed |-> FALSE,
     exchangeCalls |-> 0, exchanged |-> NoTokenInfo, exchangeFailed |-> FALSE,
     apiCalls |-> 0, apiOutcome |-> "none", raised |-> "none",
     omitted |-> FALSE]

VARIABLES
    now,         \* the clock read by is_token_expired and by the provider
    store,       \* the persisted session of each browser session
    usedCodes,   \* authorization codes the provider has already redeemed
    nextTok,     \* the next access token the provider issues
    req,         \* the requests in flight
    hist,        \* what each request in flight has done
    arrived      \* the number of requests that have arrived

vars == <<now, store, usedCodes, nextTok, req, hist, arrived>>

(* ------------------------- library operators --------------------------- *)
\* sp_oauth.is_token_expired(token_info); the library's safety margin is
\* counted into expires_at
is_token_expired(token_info, t) == token_info.expires_at <= t

\* `if not token_info`
Absent(token_info) == token_info = NoTokenInfo

\* The token endpoint's successful answers.  An answer to the
\* authorization-code grant carries a refresh token; an answer to the
\* refresh grant may omit it (0) or carry a new one.  With lenient = FALSE
\* the provider honours the token-endpoint contract (every answer carries
\* an access token); with lenient = TRUE it may also answer 200 with a body
\* that lacks 'access_token'.
ProviderAnswers(refreshGrant, lenient) ==
    IF nextTok > MaxTok THEN {}
    ELSE {[access_token |-> a, refresh_token |-> rt, expires_at |-> now + e] :
             a \in {nextTok} \cup (IF lenient THEN {0} ELSE {}),
             rt \in {nextTok} \cup (IF refreshGrant THEN {0} ELSE {}),
             e \in 1..MaxExpiresIn}

\* sp_oauth.refresh_access_token(refresh_token) on the provider's answer:
\* the returned token_info reuses the refresh token it was called with
\* when the answer carries none
refresh_access_token(answer, refresh_token) ==
    IF answer.refresh_token = 0
    THEN [answer EXCEPT !.refresh_token = refresh_token]
    ELSE answer

(* ------------------------------ helpers -------------------------------- *)
Set(r, new) == req' = [req EXCEPT ![r] = new]
Note(r, new) == hist' = [hist EXCEPT ![r] = new]

\* the handler returned `response`
Return(q, response) == [q EXCEPT !.pc = "done", !.response = response]

\* an exception left the view function: Flask answers through the 500
\* handler (internal_error)
Raise(q) == [q EXCEPT !.pc = "done", !.response = Response(500, "Internal server error")]

(* ------------------------------- Init ---------------------------------- *)
Init ==
    /\ now = 0
    /\ store = [s \in Sessions |-> EmptySession]
    /\ usedCodes = {}
    /\ nextTok = 1
    /\ req = [r \in Reqs |-> IdleReq]
    /\ hist = [r \in Reqs |-> IdleHist]
    /\ arrived = 0

(* ------------------------------ actions -------------------------------- *)
\* time passes
Tick ==
    /\ now < MaxTime
    /\ now' = now + 1
    /\ UNCHANGED <<store, usedCodes, nextTok, req, hist, arrived>>

\* A request arrives at slot r for `route` on session s: Flask opens the
\* session from the browser's cookie before the view function runs.
\* Slots are interchangeable, so a request takes the first idle one.
Arrives(r) ==
    /\ req[r].pc = "idle"
    /\ r = "r2" => req["r1"].pc /= "idle"
    /\ arrived < MaxRequests
    /\ arrived' = arrived + 1

Loaded(route, s) == [IdleReq EXCEPT !.route = route, !.sid = s, !.session = store[s]]

Seen(s) == [IdleHist EXCEPT !.session0 = store[s]]

\* Variant of save_session that writes the keys of token_info one by one
\* and stops after the first.
save_session_fieldwise(stored, q) ==
    IF q.modified \/ q.session.permanent
    THEN [stored EXCEPT !.token_info.access_token = q.session.token_info.access_token]
    ELSE stored

\* the stored session after the response of request q went out
save_session(stored, q) ==
    IF q.modified \/ q.session.permanent THEN q.session ELSE stored

\* Flask saves the session with the response (the cookie is written when
\* the session was modified or is permanent) and the request ends.
Deliver(r) ==
    /\ req[r].pc = "done"
    /\ store' = [store EXCEPT ![req[r].sid] = save_session(@, req[r])]
    /\ Set(r, IdleReq)
    /\ Note(r, IdleHist)
    /\ UNCHANGED <<now, usedCodes, nextTok, arrived>>


(* ---------------------- get_spotify_client (43-59) --------------------- *)
\* Variants of Branch with one test dropped or inverted.
BranchNoExpiryCheck(token_info, t) ==
    IF Absent(token_info) THEN "None" ELSE "bind"

BranchAlwaysRefresh(token_info, t) ==
    IF Absent(token_info) THEN "None" ELSE "refresh"

\* lines 45-50: what get_spotify_client does with the session's token_info
\* at time t: return None, send the refresh call, or bind the client
Branch(token_info, t) ==
    IF Absent(token_info) THEN "None"
    ELSE IF is_token_expired(token_info, t) THEN "refresh"
    ELSE "bind"

\* line 59: Spotify(auth=token_info['access_token']); the subscript raises
\* KeyError when the key is missing, outside the try block
Bind(q, token_info) ==
    IF token_info.access_token = 0
    THEN Raise(q)
    ELSE [q EXCEPT !.pc = "handler", !.sp = token_info.access_token]

\* Variant of Refreshed that stores the new access token and expiry only.
RefreshedDropsRefreshToken(q, token_info) ==
    Bind([q EXCEPT !.session.token_info = [token_info EXCEPT !.refresh_token = 0],
                   !.modified = TRUE],
         token_info)

\* Variant of Refreshed that binds the client before line 53 rebinds
\* token_info.
RefreshedBindsStale(q, token_info) ==
    Bind([q EXCEPT !.session.token_info = token_info, !.modified = TRUE],
         q.session.token_info)

\* lines 52-53 and 59: the refresh call returned token_info
Refreshed(q, token_info) ==
    Bind([q EXCEPT !.session.token_info = token_info, !.modified = TRUE], token_info)

\* Variant of RefreshFailed without the session.pop of line 56.
RefreshFailedKeepsToken(q) == [q EXCEPT !.pc = "handler", !.sp = 0]

\* lines 54-57: the refresh call raised
RefreshFailed(q) ==
    [q EXCEPT !.pc = "handler", !.sp = 0,
              !.session.token_info = NoTokenInfo, !.modified = TRUE]

\* A request for a route that calls get_spotify_client arrives, and the
\* function runs up to its return or up to the refresh call of line 52.
GetClient(r) ==
    /\ Arrives(r)
    /\ \E route \in Routes \ {"callback", "logout"}, s \in Sessions :
          LET token_info == store[s].token_info
              q == Loaded(route, s)
              branch == Branch(token_info, now)
          IN  CASE branch = "None" ->
                    /\ Set(r, [q EXCEPT !.pc = "handler", !.sp = 0])
                    /\ Note(r, Seen(s))
                [] branch = "refresh" ->
                    /\ Set(r, [q EXCEPT !.pc = "refresh"])
                    /\ Note(r, [Seen(s) EXCEPT !.checked = now, !.refreshCalls = @ + 1])
                [] OTHER ->
                    /\ Set(r, Bind(q, token_info))
                    /\ Note(r, [Seen(s) EXCEPT
                                  !.checked = now,
                                  !.raised = IF token_info.access_token = 0
                                             THEN "get_spotify_client" ELSE "none"])
    /\ UNCHANGED <<now, store, usedCodes, nextTok>>

\* The refresh call returns: refresh_access_token hands back a token_info
\* or raises.
RefreshReturn(r, lenient) ==
    /\ req[r].pc = "refresh"
    /\ \/ \E answer \in ProviderAnswers(TRUE, lenient) :
            LET t == refresh_access_token(answer,
                                          req[r].session.token_info.refresh_token)
            IN  /\ nextTok' = nextTok + 1
                /\ Set(r, Refreshed(req[r], t))
                /\ Note(r, [hist[r] EXCEPT
                          !.refreshed = t,
                          !.omitted = (answer.refresh_token = 0),
                          !.raised = IF t.access_token = 0
                                     THEN "get_spotify_client" ELSE "none"])
       \/ /\ Set(r, RefreshFailed(req[r]))
          /\ Note(r, [hist[r] EXCEPT !.refreshFailed = TRUE])
          /\ UNCHANGED nextTok
    /\ UNCHANGED <<now, store, usedCodes, arrived>>

(* --------------------------- /callback (94-117) ------------------------ *)
\* Variant of CallbackBranch with the two tests in the other order.
CallbackBranchCodeFirst(error, code) ==
    IF ~TruthyCode(code) THEN "/?error=no_code"
    ELSE IF Truthy(error) THEN "/?error=access_denied"
    ELSE "exchange"

\* lines 98-107: the error parameter is tested first, then the code
CallbackBranch(error, code) ==
    IF Truthy(error) THEN "/?error=access_denied"
    ELSE IF ~TruthyCode(code) THEN "/?error=no_code"
    ELSE "exchange"

\* Variant of Exchanged without line 111.
ExchangedNotPermanent(q, token_info) ==
    Return([q EXCEPT !.session.token_info = token_info, !.modified = TRUE],
           Response(302, "/create_playlist"))

\* lines 109-114: get_access_token returned token_info
Exchanged(q, token_info) ==
    Return([q EXCEPT !.session.token_info = token_info, !.modified = TRUE,
                     !.session.permanent = TRUE],
           Response(302, "/create_playlist"))

\* Variant of ExchangeFailed that also drops the stored token.
ExchangeFailedClears(q) ==
    Return([q EXCEPT !.session.token_info = NoTokenInfo, !.modified = TRUE],
           Response(302, "/?error=callback_failed"))

\* lines 115-117: get_access_token raised
ExchangeFailed(q) == Return(q, Response(302, "/?error=callback_failed"))

\* A /callback request arrives; with a code and no error the exchange call
\* of line 109 is sent.
Callback(r) ==
    /\ Arrives(r)
    /\ \E s \in Sessions, error \in {Missing, "", "access_denied"},
          code \in NoCode..(NumCodes + 1) :
       LET q == [Loaded("callback", s) EXCEPT !.error = error, !.code = code]
           branch == CallbackBranch(error, code)
       IN  IF branch = "exchange"
           THEN /\ Set(r, [q EXCEPT !.pc = "exchange"])
                /\ Note(r, [Seen(s) EXCEPT !.exchangeCalls = @ + 1])
           ELSE /\ Set(r, Return(q, Response(302, branch)))
                /\ Note(r, Seen(s))
    /\ UNCHANGED <<now, store, usedCodes, nextTok>>

\* The exchange call returns: the provider redeems a code it issued once
\* and get_access_token hands back a token_info, or get_access_token raises
\* (always so for a code that was redeemed before or never issued).
ExchangeReturn(r, lenient) ==
    /\ req[r].pc = "exchange"
    /\ \/ /\ req[r].code \in 1..NumCodes
          /\ req[r].code \notin usedCodes
          /\ \E t \in ProviderAnswers(FALSE, lenient) :
                /\ usedCodes' = usedCodes \cup {req[r].code}
                /\ nextTok' = nextTok + 1
                /\ Set(r, Exchanged(req[r], t))
                /\ Note(r, [hist[r] EXCEPT !.exchanged = t])
       \/ /\ Set(r, ExchangeFailed(req[r]))
          /\ Note(r, [hist[r] EXCEPT !.exchangeFailed = TRUE])
          /\ UNCHANGED <<usedCodes, nextTok>>
    /\ UNCHANGED <<now, store, arrived>>

(* -------------------------- /auth/logout (119-123) --------------------- *)
logout(q) ==
    Return([q EXCEPT !.session = EmptySession, !.modified = TRUE], Response(302, "/"))

Logout(r) ==
    /\ Arrives(r)
    /\ \E s \in Sessions :
        /\ Set(r, logout(Loaded("logout", s)))
        /\ Note(r, Seen(s))
    /\ UNCHANGED <<now, store, usedCodes, nextTok>>

(* ----------------------------- route handlers -------------------------- *)
\* upstream calls /create_playlist makes in a row: current_user,
\* user_playlist_create, recommendations, playlist_add_items
CreatePlaylistCalls == 4

\* Variant of Query without the default value.
QueryNoDefault(q) == q

\* request.args.get('q', '')
Query(q) == IF q = Missing THEN "" ELSE q

\* the routes that answer without an upstream call although a client was
\* obtained: an unknown action (line 204), an empty query (lines 247-248)
AnswersLocally(q) ==
    \/ q.route = "modify_playlist" /\ q.action \notin {"add", "remove"}
    \/ q.route = "search_tracks" /\ Query(q.q) = ""

\* Variant of NoClientResponse that sends API callers to the login page.
NoClientResponseRedirects(route) ==
    CASE route = "index" -> Response(200, "Login with Spotify")
      [] route = "auth_status" -> Response(200, "authenticated: false")
      [] OTHER -> Response(302, "/")

\* get_spotify_client returned None
NoClientResponse(route) ==
    CASE route = "index" -> Response(200, "Login with Spotify")
      [] route = "auth_status" -> Response(200, "authenticated: false")
      [] route \in {"create_playlist", "modify_playlist"} -> Response(302, "/")
      [] OTHER -> Response(401, "Not authenticated")

NoClient(r) ==
    /\ req[r].pc = "handler"
    /\ req[r].sp = 0
    /\ Set(r, Return(req[r], NoClientResponse(req[r].route)))
    /\ UNCHANGED <<now, store, usedCodes, nextTok, hist, arrived>>

\* Variant of LocalResponse that answers an unknown action with status 400.
LocalResponseAllErrors(route) ==
    IF route = "modify_playlist"
    THEN Response(400, "Invalid action")
    ELSE Response(400, "No search query provided")

LocalResponse(route) ==
    IF route = "modify_playlist"
    THEN Response(200, "Invalid action")
    ELSE Response(400, "No search query provided")

\* The URL's action and q are drawn where the handler first reads them
\* (lines 197 and 246).
Inputs(route) ==
    CASE route = "modify_playlist" ->
            [action : {"add", "remove", "other"}, q : {Missing}]
      [] route = "search_tracks" ->
            [action : {"none"}, q : {Missing, "", "test"}]
      [] OTHER -> [action : {"none"}, q : {Missing}]

Reads(q, in) ==
    IF q.step = 0 THEN [q EXCEPT !.action = in.action, !.q = in.q] ELSE q

Local(r) ==
    /\ req[r].pc = "handler"
    /\ req[r].sp /= 0
    /\ \E in \in Inputs(req[r].route) :
        /\ AnswersLocally(Reads(req[r], in))
        /\ Set(r, Return(Reads(req[r], in), LocalResponse(req[r].route)))
    /\ UNCHANGED <<now, store, usedCodes, nextTok, hist, arrived>>

\* the response of each route to the outcome of its (last) upstream call
index(q, out) ==
    IF out = "ok"
    THEN Return(q, Response(200, "Welcome"))
    ELSE Return(q, Response(200, "Login with Spotify"))

auth_status(q, out) ==
    CASE out = "ok" -> Return(q, Response(200, "authenticated: true"))
      [] out = "SpotifyException" ->
            Return([q EXCEPT !.session.token_info = NoTokenInfo, !.modified = TRUE],
                   Response(200, "authenticated: false"))
      [] OTHER -> Raise(q)

create_playlist(q, out) ==
    CASE out = "ok" ->
            IF q.step + 1 < CreatePlaylistCalls
            THEN [q EXCEPT !.step = @ + 1]
            ELSE Return([q EXCEPT !.step = @ + 1], Response(200, "Playlist created!"))
      [] out = "SpotifyException" -> Return(q, Response(200, "Error creating playlist"))
      [] OTHER -> Return(q, Response(200, "Unexpected error"))

\* Variant of modify_playlist that drops the stored token on an upstream
\* API error.
modify_playlist_pops(q, out) ==
    CASE out = "ok" -> Return(q, Response(200, "Success!"))
      [] out = "SpotifyException" ->
            Return([q EXCEPT !.session.token_info = NoTokenInfo, !.modified = TRUE],
                   Response(200, "Error modifying playlist"))
      [] OTHER -> Return(q, Response(200, "Unexpected error"))

modify_playlist(q, out) ==
    CASE out = "ok" -> Return(q, Response(200, "Success!"))
      [] out = "SpotifyException" -> Return(q, Response(200, "Error modifying playlist"))
      [] OTHER -> Return(q, Response(200, "Unexpected error"))

\* Variant of get_user_playlists that asks the upstream API twice.
get_user_playlists_twice(q, out) ==
    CASE out = "ok" ->
            IF q.step = 0 THEN [q EXCEPT !.step = 1]
            ELSE Return(q, Response(200, "playlists"))
      [] out = "SpotifyException" -> Return(q, Response(400, "Spotify API error"))
      [] OTHER -> Return(q, Response(500, "Internal server error"))

get_user_playlists(q, out) ==
    CASE out = "ok" -> Return(q, Response(200, "playlists"))
      [] out = "SpotifyException" -> Return(q, Response(400, "Spotify API error"))
      [] OTHER -> Return(q, Response(500, "Internal server error"))

search_tracks(q, out) ==
    CASE out = "ok" -> Return(q, Response(200, "tracks"))
      [] out = "SpotifyException" -> Return(q, Response(400, "Spotify API error"))
      [] OTHER -> Return(q, Response(500, "Internal server error"))

Handle(q, out) ==
    CASE q.route = "index" -> index(q, out)
      [] q.route = "auth_status" -> auth_status(q, out)
      [] q.route = "create_playlist" -> create_playlist(q, out)
      [] q.route = "modify_playlist" -> modify_playlist(q, out)
      [] q.route = "get_user_playlists" -> get_user_playlists(q, out)
      [] OTHER -> search_tracks(q, out)

\* One upstream API call through the client, and what the handler does
\* with its outcome.
Upstream(r) ==
    /\ req[r].pc = "handler"
    /\ req[r].sp /= 0
    /\ \E in \in Inputs(req[r].route), out \in UpstreamOutcomes :
        /\ ~AnswersLocally(Reads(req[r], in))
        /\ Set(r, Handle(Reads(req[r], in), out))
        /\ Note(r, [hist[r] EXCEPT !.apiCalls = @ + 1, !.apiOutcome = out,
                                   !.raised = IF req[r].route = "auth_status" /\ out = "Exception"
                                              THEN "auth_status" ELSE "none"])
    /\ UNCHANGED <<now, store, usedCodes, nextTok, arrived>>

(* --------------------------- specifications ---------------------------- *)
\* Requests served one at a time, against an identity provider that honours
\* the token-endpoint contract.
Next ==
    \/ Tick
    \/ \E r \in OneAtATime : GetClient(r)
    \/ \E r \in OneAtATime : RefreshReturn(r, FALSE)
    \/ \E r \in OneAtATime : Callback(r)
    \/ \E r \in OneAtATime : ExchangeReturn(r, FALSE)
    \/ \E r \in OneAtATime : Logout(r)
    \/ \E r \in OneAtATime : NoClient(r)
    \/ \E r \in OneAtATime : Local(r)
    \/ \E r \in OneAtATime : Upstream(r)
    \/ \E r \in OneAtATime : Deliver(r)

Spec == Init /\ [][Next]_vars

\* Requests served one at a time, against a provider that may also answer a
\* token request with 200 and a body without 'access_token'.
NextLenient ==
    \/ Tick
    \/ \E r \in OneAtATime : GetClient(r)
    \/ \E r \in OneAtATime : RefreshReturn(r, TRUE)
    \/ \E r \in OneAtATime : Callback(r)
    \/ \E r \in OneAtATime : ExchangeReturn(r, TRUE)
    \/ \E r \in OneAtATime : Logout(r)
    \/ \E r \in OneAtATime : NoClient(r)
    \/ \E r \in OneAtATime : Local(r)
    \/ \E r \in OneAtATime : Upstream(r)
    \/ \E r \in OneAtATime : Deliver(r)

SpecLenient == Init /\ [][NextLenient]_vars

\* Requests served concurrently (every slot in use).
NextConcurrent ==
    \/ Tick
    \/ \E r \in Reqs : GetClient(r)
    \/ \E r \in Reqs : RefreshReturn(r, FALSE)
    \/ \E r \in Reqs : Callback(r)
    \/ \E r \in Reqs : ExchangeReturn(r, FALSE)
    \/ \E r \in Reqs : Logout(r)
    \/ \E r \in Reqs : NoClient(r)
    \/ \E r \in Reqs : Local(r)
    \/ \E r \in Reqs : Upstream(r)
    \/ \E r \in Reqs : Deliver(r)

SpecConcurrent == Init /\ [][NextConcurrent]_vars

(* ======================= properties of the program ===================== *)
\* the routes that call get_spotify_client
ClientRoutes == Routes \ {"callback", "logout"}

\* the routes that turn a missing client away (redirect or 401)
ProtectedRoutes ==
    {"create_playlist", "modify_playlist", "get_user_playlists", "search_tracks"}

\* the token_info the session held when the request arrived
EntryToken(r) == hist[r].session0.token_info

\* get_spotify_client found a token and the token had expired / had not
ExpiredAtEntry(r) ==
    /\ req[r].route \in ClientRoutes
    /\ ~Absent(EntryToken(r))
    /\ EntryToken(r).expires_at <= hist[r].checked

ValidAtEntry(r) ==
    /\ req[r].route \in ClientRoutes
    /\ ~Absent(EntryToken(r))
    /\ EntryToken(r).expires_at > hist[r].checked

RefreshSucceeded(r) == hist[r].refreshed /= NoTokenInfo

ExchangeSucceeded(r) == hist[r].exchanged /= NoTokenInfo

IdpCalls(r) == hist[r].refreshCalls + hist[r].exchangeCalls

\* C1: a request that finds an expired token sends the refresh call exactly
\* once; when get_spotify_client has returned, either the refresh succeeded,
\* the session holds the refresh result and the client is bound to it, or
\* the refresh failed, the session holds no token_info and there is no
\* client.
C1_RefreshOnce ==
    \A r \in Reqs :
        ExpiredAtEntry(r) =>
            /\ hist[r].refreshCalls = 1
            /\ req[r].pc = "refresh" =>
                   /\ ~RefreshSucceeded(r) /\ ~hist[r].refreshFailed
                   /\ req[r].session.token_info = EntryToken(r)
            /\ req[r].pc = "handler" =>
                   \/ /\ RefreshSucceeded(r) /\ ~hist[r].refreshFailed
                      /\ req[r].session.token_info = hist[r].refreshed
                      /\ req[r].sp = hist[r].refreshed.access_token
                      /\ req[r].sp /= 0
                   \/ /\ ~RefreshSucceeded(r) /\ hist[r].refreshFailed
                      /\ Absent(req[r].session.token_info)
                      /\ req[r].sp = 0

\* a request found the token expired, refreshed it and got its client
C1_Witness ==
    \E r \in Reqs :
        /\ req[r].pc = "handler" /\ ExpiredAtEntry(r) /\ RefreshSucceeded(r)
        /\ req[r].sp /= 0
        /\ req[r].session.token_info /= EntryToken(r)

\* C2: every upstream call is made through a client bound to a token that
\* get_spotify_client of the same request found not expired, or to the
\* token a successful refresh of the same request returned.
C2_NoExpiredTokenUpstream ==
    \A r \in Reqs :
        hist[r].apiCalls > 0 =>
            /\ req[r].sp /= 0
            /\ \/ /\ hist[r].refreshCalls = 0
                  /\ ValidAtEntry(r)
                  /\ req[r].sp = EntryToken(r).access_token
               \/ /\ RefreshSucceeded(r)
                  /\ req[r].sp = hist[r].refreshed.access_token

\* the session's token had expired and an upstream call was made, time
\* having passed since the refresh
C2_Witness ==
    \E r \in Reqs :
        /\ hist[r].apiCalls > 0 /\ ExpiredAtEntry(r) /\ RefreshSucceeded(r)
        /\ now > hist[r].checked

\* C3: a request that finds a token that is not expired sends no refresh
\* call; get_spotify_client returns a client bound to that token and the
\* session is as the request found it, unmodified.
C3_ValidTokenUntouched ==
    \A r \in Reqs :
        ValidAtEntry(r) =>
            /\ IdpCalls(r) = 0
            /\ ~RefreshSucceeded(r) /\ ~hist[r].refreshFailed
            /\ req[r].pc = "handler" =>
                   /\ req[r].sp = EntryToken(r).access_token
                   /\ req[r].sp /= 0
                   /\ req[r].session = hist[r].session0
                   /\ ~req[r].modified

\* get_spotify_client returned a client for a valid token, in the third
\* request of the run (after the login and an earlier request)
C3_Witness ==
    \E r \in Reqs :
        /\ req[r].pc = "handler" /\ ValidAtEntry(r)
        /\ req[r].sp /= 0
        /\ arrived = 3

\* C4: get_spotify_client never raises: no request ends because an
\* exception left get_spotify_client.
C4_NeverRaises ==
    \A r \in Reqs : hist[r].raised /= "get_spotify_client"

\* C5 as stated: within a request the session's token_info differs from
\* what the request found only after a successful exchange in /callback, a
\* successful refresh, /auth/logout, or a failed refresh.
C5_Lifecycle_Original ==
    \A r \in Reqs :
        req[r].session.token_info /= EntryToken(r) =>
            \/ /\ req[r].route = "callback" /\ ExchangeSucceeded(r)
               /\ req[r].session.token_info = hist[r].exchanged
            \/ /\ RefreshSucceeded(r)
               /\ req[r].session.token_info = hist[r].refreshed
            \/ /\ req[r].route = "logout"
               /\ Absent(req[r].session.token_info)
            \/ /\ hist[r].refreshFailed
               /\ Absent(req[r].session.token_info)

\* C5 as amended: the same, and /auth/status removes token_info when its
\* upstream current_user call raises SpotifyException.
C5_Lifecycle ==
    \A r \in Reqs :
        req[r].session.token_info /= EntryToken(r) =>
            \/ /\ req[r].route = "callback" /\ ExchangeSucceeded(r)
               /\ req[r].session.token_info = hist[r].exchanged
            \/ /\ RefreshSucceeded(r)
               /\ req[r].session.token_info = hist[r].refreshed
            \/ /\ req[r].route = "logout"
               /\ Absent(req[r].session.token_info)
            \/ /\ hist[r].refreshFailed
               /\ Absent(req[r].session.token_info)
            \/ /\ req[r].route = "auth_status"
               /\ hist[r].apiOutcome = "SpotifyException"
               /\ Absent(req[r].session.token_info)

\* an upstream API error in a protected route left the token in place
C5_Witness ==
    \E r \in Reqs :
        /\ req[r].pc = "done" /\ req[r].route \in ProtectedRoutes
        /\ hist[r].apiOutcome = "SpotifyException"
        /\ ~Absent(req[r].session.token_info)
        /\ req[r].session.token_info = EntryToken(r)

\* C6 as stated: a request makes at most one call to the identity provider
\* and at most one call to the upstream API.
C6_OneCallEach_Original ==
    \A r \in Reqs : IdpCalls(r) <= 1 /\ hist[r].apiCalls <= 1

\* C6 as amended: at most one call to the identity provider; at most one
\* upstream call in every route but /create_playlist, which makes up to
\* four.
C6_CallsPerRequest ==
    \A r \in Reqs :
        /\ IdpCalls(r) <= 1
        /\ req[r].route /= "create_playlist" => hist[r].apiCalls <= 1
        /\ req[r].route = "create_playlist" => hist[r].apiCalls <= 4
        /\ req[r].route \in {"callback", "logout"} => hist[r].apiCalls = 0

\* /create_playlist refreshed the token and then made its four calls
C6_Witness ==
    \E r \in Reqs :
        /\ req[r].route = "create_playlist" /\ req[r].pc = "done"
        /\ hist[r].refreshCalls = 1 /\ hist[r].apiCalls = 4

\* what C7 says of a /callback request that ends without an exchange
NoExchange(r, location) ==
    /\ req[r].pc = "done"
    /\ req[r].response = Response(302, location)
    /\ IdpCalls(r) = 0
    /\ req[r].session = hist[r].session0
    /\ ~req[r].modified

\* C7 as stated: with the error parameter present /callback redirects to
\* /?error=access_denied, with error absent and code missing to
\* /?error=no_code; no exchange is attempted and the session is unchanged.
C7_ErrorFirst_Original ==
    \A r \in Reqs :
        req[r].route = "callback" =>
            /\ req[r].error /= Missing => NoExchange(r, "/?error=access_denied")
            /\ (req[r].error = Missing /\ ~TruthyCode(req[r].code))
                    => NoExchange(r, "/?error=no_code")

\* C7 as amended: with a non-empty error parameter /callback redirects to
\* /?error=access_denied, with or without a code; with error absent or
\* empty and code absent or empty it redirects to /?error=no_code; in both
\* cases no exchange is attempted and the session is unchanged.
C7_ErrorFirst ==
    \A r \in Reqs :
        req[r].route = "callback" =>
            /\ req[r].error \notin {Missing, ""} => NoExchange(r, "/?error=access_denied")
            /\ (req[r].error \in {Missing, ""} /\ req[r].code \in {NoCode, 0})
                    => NoExchange(r, "/?error=no_code")

\* the error parameter came with a redeemable code, on a logged-in session
C7_Witness ==
    \E r \in Reqs :
        /\ req[r].route = "callback" /\ req[r].pc = "done"
        /\ req[r].error = "access_denied"
        /\ req[r].code \in 1..NumCodes /\ req[r].code \notin usedCodes
        /\ ~Absent(req[r].session.token_info)
        /\ req[r].response.body = "/?error=access_denied"

\* C8: /callback with a code and no error whose exchange succeeded made
\* one exchange call, holds the exchange result as the session's
\* token_info, marked the session permanent and redirects to
\* /create_playlist; the provider has redeemed the code.
C8_LoginStoresToken ==
    \A r \in Reqs :
        (req[r].route = "callback" /\ ExchangeSucceeded(r)) =>
            /\ req[r].pc = "done"
            /\ TruthyCode(req[r].code) /\ ~Truthy(req[r].error)
            /\ hist[r].exchangeCalls = 1
            /\ ~hist[r].exchangeFailed
            /\ req[r].code \in usedCodes
            /\ req[r].session.token_info = hist[r].exchanged
            /\ req[r].session.permanent
            /\ req[r].modified
            /\ req[r].response = Response(302, "/create_playlist")

\* a login on a session that already held another token
C8_Witness ==
    \E r \in Reqs :
        /\ req[r].route = "callback" /\ ExchangeSucceeded(r)
        /\ ~Absent(EntryToken(r))
        /\ EntryToken(r) /= req[r].session.token_info

\* C9: /callback whose exchange failed did not raise, redirects to
\* /?error=callback_failed and leaves the session as the request found it.
C9_ExchangeFailure ==
    \A r \in Reqs :
        (req[r].route = "callback" /\ hist[r].exchangeFailed) =>
            /\ req[r].pc = "done"
            /\ hist[r].raised = "none"
            /\ ~ExchangeSucceeded(r)
            /\ req[r].response = Response(302, "/?error=callback_failed")
            /\ req[r].session = hist[r].session0
            /\ ~req[r].modified

\* a code that was redeemed by an earlier login is replayed on a session
\* that holds a token
C9_Witness ==
    \E r \in Reqs :
        /\ req[r].route = "callback" /\ hist[r].exchangeFailed
        /\ req[r].code \in usedCodes
        /\ ~Absent(req[r].session.token_info)

\* C10: in a protected route that obtained a client, a failed upstream
\* operation is answered with a 4xx or 5xx status, and a 200 after an
\* upstream operation means the operation succeeded.
C10_FailureIsErrorStatus ==
    \A r \in Reqs :
        (req[r].pc = "done" /\ req[r].route \in ProtectedRoutes /\ hist[r].apiCalls > 0) =>
            /\ hist[r].apiOutcome /= "ok" => req[r].response.status \in 400..599
            /\ req[r].response.status = 200 => hist[r].apiOutcome = "ok"

\* C11: no failure of an upstream call leaves the handler that made the
\* call: no request ends in the framework's 500 handler because of it.
C11_UpstreamFailuresAbsorbed ==
    \A r \in Reqs :
        hist[r].apiOutcome \in {"SpotifyException", "Exception"} =>
            hist[r].raised = "none"

C13_Unauthenticated ==
    \A r \in Reqs :
        (req[r].route \in ClientRoutes /\ Absent(EntryToken(r))) =>
            /\ req[r].pc \in {"handler", "done"}
            /\ req[r].sp = 0
            /\ IdpCalls(r) = 0
            /\ hist[r].apiCalls = 0
            /\ hist[r].raised = "none"
            /\ req[r].session = hist[r].session0
            /\ ~req[r].modified
            /\ (req[r].pc = "done" /\ req[r].route \in {"get_user_playlists", "search_tracks"})
                    => req[r].response = Response(401, "Not authenticated")

\* an /api/ route was asked without a token, after a login in the same run
C13_Witness ==
    \E r \in Reqs :
        /\ req[r].route \in {"get_user_playlists", "search_tracks"}
        /\ req[r].pc = "done"
        /\ Absent(EntryToken(r))
        /\ usedCodes /= {}
        /\ req[r].response.status = 401

\* C14: a stored session that a logout has cleared (it is empty, as
\* session.clear() leaves it) gets a token_info again only through a
\* /callback whose exchange succeeded, whatever other requests on the
\* session were in flight.
C14_LogoutSticks ==
    [][\A s \in Sessions :
          (store[s] = EmptySession /\ ~Absent(store'[s].token_info))
          => \E r \in Reqs :
                /\ req[r].pc = "done" /\ req'[r].pc = "idle"
                /\ req[r].sid = s
                /\ req[r].route = "callback"
                /\ ExchangeSucceeded(r)
                /\ store'[s].token_info = hist[r].exchanged]_vars

\* C15: an authenticated /api/search request whose q is missing or empty is
\* answered 400 "No search query provided" and makes no upstream call.
C15_EmptyQuery ==
    \A r \in Reqs :
        (/\ req[r].route = "search_tracks" /\ req[r].pc = "done"
         /\ req[r].sp /= 0
         /\ req[r].q \in {Missing, ""})
        => /\ req[r].response = Response(400, "No search query provided")
           /\ hist[r].apiCalls = 0

\* /api/search without a q parameter, on a session whose token had to be
\* refreshed first
C15_Witness ==
    \E r \in Reqs :
        /\ req[r].route = "search_tracks" /\ req[r].pc = "done"
        /\ req[r].sp /= 0 /\ RefreshSucceeded(r)
        /\ req[r].q = Missing
        /\ req[r].response.status = 400

\* C16: an authenticated /modify_playlist request with an action other
\* than add or remove is answered 200 "Invalid action" and makes no
\* upstream call; with add or remove it makes exactly one.
C16_ModifyPlaylist ==
    \A r \in Reqs :
        (req[r].route = "modify_playlist" /\ req[r].pc = "done" /\ req[r].sp /= 0) =>
            /\ req[r].action \notin {"add", "remove"} =>
                   /\ req[r].response = Response(200, "Invalid action")
                   /\ hist[r].apiCalls = 0
            /\ req[r].action \in {"add", "remove"} =>
                   /\ hist[r].apiCalls = 1
                   /\ req[r].response.body
                        \in {"Success!", "Error modifying playlist", "Unexpected error"}

\* an unknown action was answered
C16_Witness ==
    \E r \in Reqs :
        /\ req[r].route = "modify_playlist" /\ req[r].pc = "done"
        /\ req[r].sp /= 0
        /\ req[r].action = "other"
        /\ req[r].response.status = 200

\* C18: a client returned by get_spotify_client is bound to the access
\* token held in the session's token_info at the moment of return; after a
\* refresh that is the new access token, not the one the request came
\* with.
C18_ClientBoundToSessionToken ==
    \A r \in Reqs :
        (req[r].pc = "handler" /\ req[r].sp /= 0) =>
            /\ req[r].sp = req[r].session.token_info.access_token
            /\ RefreshSucceeded(r) =>
                   /\ req[r].sp = hist[r].refreshed.access_token
                   /\ req[r].sp /= EntryToken(r).access_token

\* get_spotify_client returned a client after a successful refresh
C18_Witness ==
    \E r \in Reqs :
        /\ req[r].pc = "handler" /\ req[r].sp /= 0
        /\ ExpiredAtEntry(r) /\ RefreshSucceeded(r)
        /\ req[r].route = "search_tracks"

\* C17: when a refresh succeeds and the provider's answer omits a refresh
\* token, the token_info the session holds afterwards carries the refresh
\* token the session held before; and every token_info a session holds
\* carries a refresh token, after any number of refreshes.
C17_RefreshTokenKept ==
    /\ \A r \in Reqs :
          (/\ req[r].pc \in {"handler", "done"}
           /\ RefreshSucceeded(r) /\ hist[r].omitted
           /\ req[r].session.token_info = hist[r].refreshed)
          => /\ req[r].session.token_info.refresh_token = EntryToken(r).refresh_token
             /\ req[r].session.token_info.refresh_token /= 0
    /\ \A r \in Reqs :
          ~Absent(req[r].session.token_info) =>
              req[r].session.token_info.refresh_token /= 0
    /\ \A s \in Sessions :
          ~Absent(store[s].token_info) => store[s].token_info.refresh_token /= 0

\* a refresh whose answer omitted the refresh token, on a session whose
\* token came out of an earlier refresh that omitted it too
C17_Witness ==
    \E r \in Reqs :
        /\ req[r].pc = "done"
        /\ ExpiredAtEntry(r) /\ RefreshSucceeded(r) /\ hist[r].omitted
        /\ EntryToken(r).access_token /= EntryToken(r).refresh_token
        /\ req[r].session.token_info.refresh_token = EntryToken(r).refresh_token
        /\ req[r].session.token_info.access_token /= EntryToken(r).access_token
====
